---- MODULE Spec2Model ----
(***************************************************************************)
(* MTN customer churn analysis: the MTNChurnAnalysis engine of             *)
(* src/mtn_churn_model.py as a state machine.                              *)
(*                                                                         *)
(* A table (pandas DataFrame) is a record [columns, rows]: columns is the  *)
(* set of column names, rows a sequence of functions from columns to cell  *)
(* values.  Numbers are integers; every quantity the code rounds to two    *)
(* decimals, and every rate derived from one, is kept in fixed point with  *)
(* Scale units per 1 (33.33 is 3333).  Binary floating-point noise below   *)
(* that resolution (0.57 * 100 = 56.99999999999999) is not modelled.       *)
(***************************************************************************)
EXTENDS Integers, Sequences, FiniteSets, TLC

VARIABLES
    df,                 \* self.df: None or the loaded table
    analysis_results,   \* self.analysis_results: analysis name -> result
    pandas_build,       \* what the installed pandas/numpy leave unspecified:
                        \* observed (groupby drops the categories without
                        \* rows), ties_reversed (sort_values swaps equal
                        \* keys), empty_raises (aggregating no rows raises),
                        \* bottleneck (the optional bottleneck package is
                        \* installed and computes Series.mean)
    loads,              \* number of load_data calls so far
    runs,               \* run_complete_analysis calls since the last load
                        \* (counted up to MaxRuns)
    data_path,          \* self.data_path: None or the source last named
    ret,                \* what the last call returned (or raised)
    out,                \* the messages the last call printed, in order
    session_state       \* st.session_state of the dashboard: data_loaded
                        \* and analysis_complete (analyzer is the engine),
                        \* and what the page shows: the two sidebar
                        \* buttons enabled or not, the Run Analysis Now
                        \* button of the home tab or not

vars ==
    <<df, analysis_results, pandas_build, loads, runs, data_path, ret, out,
      session_state>>

----------------------------------------------------------------------------
(* Bounds of the model *)

\* most rows a loaded table has
MaxRows == 3
\* most rows of a table of the segmentation specification
MaxSegRows == 2
\* most load_data calls in one behaviour of the life-cycle specification
MaxLoads == 2
\* the count of runs since the last load stops here
MaxRuns == 2

----------------------------------------------------------------------------
(* Cell values *)

\* a missing numeric cell (float NaN)
NaN == -999999
\* +inf, the result of a numpy division x / 0 with x > 0 (-inf is 0 - Inf)
Inf == 999998
\* a cell of a numeric column whose text is not a number ("abc")
Unparsable == -999997
\* a missing cell of a text column
NA == "<NA>"
\* self.df before any successful load
None == [none |-> TRUE]
\* two decimals of fixed point: round(x, 2) is kept as the integer 100 * x
Scale == 100

\* Non-string values a churn-status column can hold after pd.read_csv:
\* Python booleans (a column of True/False) and numbers (a column of 1/0).
PyTrue == "<bool True>"
PyFalse == "<bool False>"
PyOne == "<int 1>"
PyZero == "<int 0>"

IsDefined(x) == x # NaN /\ x # Inf /\ x # 0 - Inf

----------------------------------------------------------------------------
(* Columns *)

InputColumns ==
    {"Customer_ID", "Age", "State", "MTN_Device", "Satisfaction_Rate",
     "Customer_Tenure_in_months", "Subscription_Plan", "Unit_Price",
     "Total_Revenue", "Customer_Churn_Status", "Reasons_for_Churn"}

\* the columns _prepare_data coerces with pd.to_numeric, as far as an
\* analysis reads them
numeric_columns ==
    {"Age", "Satisfaction_Rate", "Customer_Tenure_in_months", "Unit_Price",
     "Total_Revenue"}

\* group keys in the order groupby sorts them (text keys sort
\* lexicographically; the model lists each universe in that order)
StateKeys == <<"Abuja", "Enugu", "Kano", "Lagos", "Rivers">>
DeviceKeys == <<"Mobile SIM", "Router">>
PlanKeys == <<"Basic", "Premium">>
ReasonKeys == <<"Network", "Price">>

AgeBins == <<0, 25, 35, 45, 55, 100>>
AgeLabels == <<"18-25", "26-35", "36-45", "46-55", "55+">>
TenureBins == <<0, 6, 12, 24, 36, 100>>
TenureLabels ==
    <<"0-6 months", "7-12 months", "13-24 months", "25-36 months",
      "36+ months">>

----------------------------------------------------------------------------
(* Arithmetic *)

\* n / d rounded to the nearest integer, ties to the even one (numpy's and
\* Python's round), for d > 0
RoundHalfEven(n, d) ==
    LET q == n \div d
        r == n % d
    IN  IF 2 * r < d THEN q
        ELSE IF 2 * r > d THEN q + 1
        ELSE IF q % 2 = 0 THEN q ELSE q + 1

\* numpy's n / d: nan for 0 / 0, an infinity for x / 0; otherwise the
\* quotient times `times`, rounded to two decimals, in fixed point
Ratio(n, d, times) ==
    IF d = 0 THEN (IF n = 0 THEN NaN ELSE IF n > 0 THEN Inf ELSE 0 - Inf)
    ELSE IF d > 0 THEN RoundHalfEven(n * times * Scale, d)
    ELSE RoundHalfEven((0 - n) * times * Scale, 0 - d)

RECURSIVE SeqSum(_)
SeqSum(s) == IF s = <<>> THEN 0 ELSE Head(s) + SeqSum(Tail(s))

\* the values of column c, row by row
Col(rows, c) == [i \in DOMAIN rows |-> rows[i][c]]

\* Series.sum(): missing values are skipped, the empty sum is 0
ColSum(rows, c) ==
    SeqSum(SelectSeq(Col(rows, c), LAMBDA v : v # NaN))

\* number of non-missing values of a numeric column
ColCount(rows, c) == Len(SelectSeq(Col(rows, c), LAMBDA v : v # NaN))

\* Series.mean() rounded to two decimals: nan when there is no value
ColMean(rows, c) == Ratio(ColSum(rows, c), ColCount(rows, c), 1)

\* the elements of a finite set of integers in increasing order
RECURSIVE SortedInts(_)
SortedInts(S) ==
    IF S = {} THEN <<>>
    ELSE LET m == CHOOSE x \in S : \A y \in S : x <= y
         IN  <<m>> \o SortedInts(S \ {m})

Range(s) == {s[i] : i \in DOMAIN s}

----------------------------------------------------------------------------
(* load_data and _prepare_data *)

\* pd.to_numeric(errors='coerce'): text that is no number becomes missing
to_numeric(v) == IF v = Unparsable THEN NaN ELSE v

\* The mapping of the churn status.  Series.map looks each value up in the
\* dict by Python equality and hash; True == 1 and False == 0 in Python, so
\* the keys True and False are also found by the numbers 1 and 0.  A value
\* that is no key maps to NaN.
ChurnMap(s) ==
    CASE s \in {"Churned", "Yes", PyTrue, PyOne} -> 1
      [] s \in {"Active", "No", PyFalse, PyZero} -> 0
      [] OTHER -> NaN

\* fillna forgotten: an unmapped status stays missing
fillna_forgotten(v, x) == v

fillna(v, x) == IF v = NaN THEN x ELSE v

prepare_row(r, cols) ==
    [c \in cols \cup (IF "Customer_Churn_Status" \in cols
                        THEN {"Churn_Binary"} ELSE {}) |->
        IF c = "Churn_Binary"
            THEN fillna(ChurnMap(r["Customer_Churn_Status"]), 0)
        ELSE IF c \in numeric_columns THEN to_numeric(r[c])
        ELSE r[c]]

prepare_data(t) ==
    [columns |-> t.columns \cup (IF "Customer_Churn_Status" \in t.columns
                                   THEN {"Churn_Binary"} ELSE {}),
     rows |-> [i \in DOMAIN t.rows |-> prepare_row(t.rows[i], t.columns)]]

----------------------------------------------------------------------------
(* calculate_primary_kpis *)

kpi_columns == {"Churn_Binary", "Total_Revenue", "Satisfaction_Rate"}

\* active customers counted from the statuses that say "active" instead of
\* as the rest of the table
primary_kpis_active_by_status(d) ==
    LET total_customers == Len(d.rows)
        churned_customers == ColSum(d.rows, "Churn_Binary")
        revenue_at_risk ==
            ColSum(SelectSeq(d.rows, LAMBDA r : r["Churn_Binary"] = 1),
                   "Total_Revenue")
        total_revenue == ColSum(d.rows, "Total_Revenue")
    IN  [total_customers |-> total_customers,
         churned_customers |-> churned_customers,
         churn_rate |-> Ratio(churned_customers, total_customers, 100),
         revenue_at_risk |-> revenue_at_risk,
         total_revenue |-> total_revenue,
         revenue_risk_percentage |->
             Ratio(revenue_at_risk, total_revenue, 100),
         avg_satisfaction |-> ColMean(d.rows, "Satisfaction_Rate"),
         active_customers |->
             Len(SelectSeq(d.rows, LAMBDA r :
                 ChurnMap(r["Customer_Churn_Status"]) = 0))]

\* revenue at risk summed without the churned-rows filter
primary_kpis_risk_unfiltered(d) ==
    LET total_customers == Len(d.rows)
        churned_customers == ColSum(d.rows, "Churn_Binary")
        revenue_at_risk == ColSum(d.rows, "Total_Revenue")
        total_revenue == ColSum(d.rows, "Total_Revenue")
    IN  [total_customers |-> total_customers,
         churned_customers |-> churned_customers,
         churn_rate |-> Ratio(churned_customers, total_customers, 100),
         revenue_at_risk |-> revenue_at_risk,
         total_revenue |-> total_revenue,
         revenue_risk_percentage |->
             Ratio(revenue_at_risk, total_revenue, 100),
         avg_satisfaction |-> ColMean(d.rows, "Satisfaction_Rate"),
         active_customers |-> total_customers - churned_customers]

primary_kpis(d) ==
    LET total_customers == Len(d.rows)
        churned_customers == ColSum(d.rows, "Churn_Binary")
        revenue_at_risk ==
            ColSum(SelectSeq(d.rows, LAMBDA r : r["Churn_Binary"] = 1),
                   "Total_Revenue")
        total_revenue == ColSum(d.rows, "Total_Revenue")
    IN  [total_customers |-> total_customers,
         churned_customers |-> churned_customers,
         churn_rate |-> Ratio(churned_customers, total_customers, 100),
         revenue_at_risk |-> revenue_at_risk,
         total_revenue |-> total_revenue,
         revenue_risk_percentage |->
             Ratio(revenue_at_risk, total_revenue, 100),
         avg_satisfaction |-> ColMean(d.rows, "Satisfaction_Rate"),
         active_customers |-> total_customers - churned_customers]

\* An engine state is [df, res]: the table and the results mapping.  Each
\* analysis maps the engine state before the call to the one after it; a
\* call that raises inside its try block stores nothing.  The engine state
\* s carries the table (df), the results (res), the messages printed so
\* far by the call (out) and the value the call returns (ret).

\* return value: the operation, the Python type of the value, the value
Value(op, kind, value) == [op |-> op, kind |-> kind, value |-> value]

\* print(...): the operation that prints and the mark the message opens
\* with ("ok" for the check mark, "warning", "error", "start")
Message(op, level) == [op |-> op, level |-> level]

\* the call prints its closing message and returns
Returned(s, op, level, kind, value) ==
    [s EXCEPT !.out = Append(@, Message(op, level)),
              !.ret = Value(op, kind, value)]

\* pd.DataFrame() and {}: the empty results a failed analysis returns
EmptyFrame == <<>>
EmptyDict == [k \in {} |-> 0]

Put(res, k, v) == [x \in DOMAIN res \cup {k} |-> IF x = k THEN v ELSE res[x]]

Has(d, cols) == d # None /\ cols \subseteq d.columns

\* the table has the columns an aggregation reads, and the aggregation
\* does not raise on it: on a table without rows (a file of a header line
\* only) that depends on the pandas build
Aggregates(d, cols) ==
    Has(d, cols) /\ ~(d.rows = <<>> /\ pandas_build.empty_raises)

calculate_primary_kpis_step(s) ==
    IF Aggregates(s.df, kpi_columns)
        THEN Returned([s EXCEPT !.res = Put(s.res, "primary_kpis",
                                            primary_kpis(s.df))],
                      "calculate_primary_kpis", "ok", "dict",
                      primary_kpis(s.df))
        ELSE Returned(s, "calculate_primary_kpis", "error", "dict", EmptyDict)

----------------------------------------------------------------------------
(* Grouped aggregation: df.groupby(key).agg({...}).round(2) *)

\* 'Customer_ID': 'count' counts the rows whose Customer_ID is not missing
CountIds(g) == Len(SelectSeq(g, LAMBDA r : r["Customer_ID"] # NA))

\* ('Churn_Binary', 'mean') rounded to two decimals by .round(2), then
\* multiplied by 100 by the statement that follows the aggregation
ChurnRate(g) ==
    LET mean == Ratio(ColSum(g, "Churn_Binary"), Len(g), 1)
    IN  IF mean = NaN THEN NaN ELSE mean * 100

agg_row(k, g) ==
    [key |-> k,
     Total_Customers |-> CountIds(g),
     Churned_Customers |-> ColSum(g, "Churn_Binary"),
     Churn_Rate |-> ChurnRate(g),
     Total_Revenue |-> ColSum(g, "Total_Revenue"),
     Avg_Satisfaction |-> ColMean(g, "Satisfaction_Rate")]

agg_row_price(k, g) ==
    [key |-> k,
     Total_Customers |-> CountIds(g),
     Churned_Customers |-> ColSum(g, "Churn_Binary"),
     Churn_Rate |-> ChurnRate(g),
     Total_Revenue |-> ColSum(g, "Total_Revenue"),
     Avg_Unit_Price |-> ColMean(g, "Unit_Price"),
     Avg_Satisfaction |-> ColMean(g, "Satisfaction_Rate")]

Group(rows, c, k) == SelectSeq(rows, LAMBDA r : r[c] = k)

\* the keys of groupby(c) on a text column: the values that occur, sorted;
\* rows whose key is missing belong to no group
TextKeys(rows, c, universe) ==
    SelectSeq(universe, LAMBDA k : \E i \in DOMAIN rows : rows[i][c] = k)

\* the keys of groupby(c) on a categorical column: with observed=False (the
\* default before pandas 3) every category, with observed=True (the default
\* from pandas 3) only those that occur
CategoryKeys(rows, c, labels) ==
    IF pandas_build.observed THEN TextKeys(rows, c, labels) ELSE labels

\* sort_values('Churn_Rate', ascending=False): the default kind, quicksort,
\* is not stable, so the order of rows with equal rates is the kernel's
RECURSIVE SortDesc(_, _, _)
SortDesc(rows, by, idx) ==
    IF idx = {} THEN <<>>
    ELSE LET first == CHOOSE i \in idx : \A j \in idx :
                 \/ rows[i][by] > rows[j][by]
                 \/ /\ rows[i][by] = rows[j][by]
                    /\ IF pandas_build.ties_reversed THEN i >= j ELSE i <= j
         IN  <<rows[first]>> \o SortDesc(rows, by, idx \ {first})

sort_values(rows, by) == SortDesc(rows, by, DOMAIN rows)

----------------------------------------------------------------------------
(* satisfaction_churn_analysis *)

satisfaction_columns == {"Satisfaction_Rate", "Churn_Binary", "Total_Revenue"}

\* the rows that have a satisfaction score, and the scores that occur
Scored(rows) == SelectSeq(rows, LAMBDA r : r["Satisfaction_Rate"] # NaN)

SatisfactionKeys(rows) ==
    SortedInts(Range(Col(Scored(rows), "Satisfaction_Rate")))

\* groupby(['Satisfaction_Rate', 'Churn_Binary']).size().unstack(fill_value=0)
satisfaction_crosstab(d) ==
    LET flags == Range(Col(Scored(d.rows), "Churn_Binary"))
        keys == SatisfactionKeys(d.rows)
    IN  [i \in DOMAIN keys |->
            [key |-> keys[i],
             size |-> [b \in flags |->
                 Len(SelectSeq(Group(d.rows, "Satisfaction_Rate", keys[i]),
                               LAMBDA r : r["Churn_Binary"] = b))]]]

satisfaction_summary(d) ==
    LET keys == SatisfactionKeys(d.rows)
    IN  [i \in DOMAIN keys |->
            LET g == Group(d.rows, "Satisfaction_Rate", keys[i])
            IN  [key |-> keys[i],
                 Total_Customers |-> Len(g),
                 Churned_Customers |-> ColSum(g, "Churn_Binary"),
                 Churn_Rate |-> ChurnRate(g),
                 Total_Revenue |-> ColSum(g, "Total_Revenue")]]

satisfaction_churn_analysis_step(s) ==
    IF Aggregates(s.df, satisfaction_columns)
        THEN Returned([s EXCEPT !.res = Put(s.res, "satisfaction_analysis",
                          [crosstab |-> satisfaction_crosstab(s.df),
                           summary |-> satisfaction_summary(s.df)])],
                      "satisfaction_churn_analysis", "ok", "DataFrame",
                      satisfaction_summary(s.df))
        ELSE Returned(s, "satisfaction_churn_analysis", "error",
                      "DataFrame", EmptyFrame)

----------------------------------------------------------------------------
(* geographic_analysis *)

geographic_columns ==
    {"State", "Customer_ID", "Churn_Binary", "Total_Revenue",
     "Satisfaction_Rate"}

geo_analysis(d) ==
    LET keys == TextKeys(d.rows, "State", StateKeys)
    IN  sort_values([i \in DOMAIN keys |->
                        agg_row(keys[i], Group(d.rows, "State", keys[i]))],
                    "Churn_Rate")

\* The Churn_Rate column holds float64 values. Each is close to a whole
\* percentage, and so is every partial sum of them: such a double is
\* written int + dev * 2^-52, with both parts integers.
Double(int, dev) == [int |-> int, dev |-> dev]

RECURSIVE Pow2(_)
Pow2(k) == IF k = 0 THEN 1 ELSE 2 * Pow2(k - 1)

RECURSIVE Log2(_)
Log2(n) == IF n < 2 THEN 0 ELSE 1 + Log2(n \div 2)

RECURSIVE Pow2Mod(_, _)
Pow2Mod(k, m) == IF k = 0 THEN 1 % m ELSE (2 * Pow2Mod(k - 1, m)) % m

\* the distance between neighbouring doubles at int + dev * 2^-52, in units
\* of 2^-52 (53 significant bits; just below a power of two it is halved)
Ulp(int, dev) ==
    LET e == Log2(int)
    IN  IF dev < 0 /\ Pow2(e) = int THEN Pow2(e - 1) ELSE Pow2(e)

\* the double nearest to int + (num / den) * 2^-52, ties to even
Nearest(int, num, den) ==
    IF int = 0 THEN Double(0, 0)
    ELSE LET u == Ulp(int, num)
         IN  Double(int, RoundHalfEven(num, den * u) * u)

\* the least j with r * 2^j >= 100: the double r / 100 lies in
\* [2^-j, 2^(1-j)) and is a multiple of 2^(-j-52)
RECURSIVE Halvings(_, _)
Halvings(r, j) == IF r * Pow2(j) >= 100 THEN j ELSE Halvings(r, j + 1)

\* .round(2) leaves the double nearest to r / 100, and
\* geo_analysis['Churn_Rate'] * 100 is the double nearest to 100 times it:
\* with r * 2^(52+j) = 100 * m + rem, the first double is m or m + 1 times
\* 2^(-j-52), and 100 times it is off r by -rem or 100 - rem of these units
times100(r) ==
    IF r = 0 THEN Double(0, 0)
    ELSE LET j == Halvings(r, 0)
             rem == (r * Pow2Mod(52 + j, 100)) % 100
         IN  Nearest(r, IF rem < 50 THEN 0 - rem ELSE 100 - rem, Pow2(j))

\* a + b of two doubles
fadd(a, b) == Nearest(a.int + b.int, a.dev + b.dev, 1)

\* the doubles of xs added from the first to the last
RECURSIVE fsum(_)
fsum(xs) ==
    IF xs = <<>> THEN Double(0, 0)
    ELSE fadd(fsum(SubSeq(xs, 1, Len(xs) - 1)), xs[Len(xs)])

\* the sum Series.mean() divides, for a column of at most eight values:
\* bottleneck adds them from the first to the last; numpy's add.reduce
\* adds to the first value the sum of the others
nansum(xs) ==
    IF pandas_build.bottleneck \/ Len(xs) < 2 THEN fsum(xs)
    ELSE fadd(xs[1], fsum(Tail(xs)))

\* x > the_sum / n in doubles: the whole parts decide unless x is the exact
\* quotient of them, and then the rounded quotient of the deviations does
above_mean(x, the_sum, n) ==
    IF x.int * n # the_sum.int THEN x.int * n > the_sum.int
    ELSE x.dev > Nearest(x.int, the_sum.dev, n).dev

\* geo_analysis[geo_analysis['Churn_Rate'] > geo_analysis['Churn_Rate'].mean()]
high_risk_states(geo) ==
    LET rates == [i \in DOMAIN geo |-> times100(geo[i].Churn_Rate \div Scale)]
        the_sum == nansum(rates)
    IN  SelectSeq(geo, LAMBDA g :
            above_mean(times100(g.Churn_Rate \div Scale), the_sum, Len(geo)))

avg_churn_rate(geo) ==
    IF Len(geo) = 0 THEN NaN
    ELSE RoundHalfEven(SeqSum(Col(geo, "Churn_Rate")), Len(geo))

\* an entry without rows stored when the aggregation raises
geographic_analysis_step_stores_empty(s) ==
    IF Aggregates(s.df, geographic_columns)
        THEN LET geo == geo_analysis(s.df)
             IN  Returned([s EXCEPT !.res = Put(s.res, "geographic_analysis",
                              [state_summary |-> geo,
                               high_risk_states |-> high_risk_states(geo),
                               avg_churn_rate |-> avg_churn_rate(geo)])],
                          "geographic_analysis", "ok", "DataFrame", geo)
        ELSE Returned([s EXCEPT !.res = Put(s.res, "geographic_analysis",
                          [state_summary |-> EmptyFrame,
                           high_risk_states |-> EmptyFrame,
                           avg_churn_rate |-> NaN])],
                      "geographic_analysis", "error", "DataFrame",
                      EmptyFrame)

geographic_analysis_step(s) ==
    IF Aggregates(s.df, geographic_columns)
        THEN LET geo == geo_analysis(s.df)
             IN  Returned([s EXCEPT !.res = Put(s.res, "geographic_analysis",
                              [state_summary |-> geo,
                               high_risk_states |-> high_risk_states(geo),
                               avg_churn_rate |-> avg_churn_rate(geo)])],
                          "geographic_analysis", "ok", "DataFrame", geo)
        ELSE Returned(s, "geographic_analysis", "error", "DataFrame",
                      EmptyFrame)

----------------------------------------------------------------------------
(* device_performance_analysis *)

device_columns ==
    {"MTN_Device", "Customer_ID", "Churn_Binary", "Total_Revenue",
     "Unit_Price", "Satisfaction_Rate"}

device_analysis(d) ==
    LET keys == TextKeys(d.rows, "MTN_Device", DeviceKeys)
    IN  sort_values([i \in DOMAIN keys |->
                        agg_row_price(keys[i],
                                      Group(d.rows, "MTN_Device", keys[i]))],
                    "Churn_Rate")

device_performance_analysis_step(s) ==
    IF Aggregates(s.df, device_columns)
        THEN Returned([s EXCEPT !.res = Put(s.res, "device_analysis",
                                            device_analysis(s.df))],
                      "device_performance_analysis", "ok", "DataFrame",
                      device_analysis(s.df))
        ELSE Returned(s, "device_performance_analysis", "error",
                      "DataFrame", EmptyFrame)

----------------------------------------------------------------------------
(* customer_segmentation_analysis *)

\* pd.cut(x, bins, labels): the default right=True, include_lowest=False
\* makes bin i the interval (bins[i], bins[i+1]]; a value in no bin, and a
\* missing value, get no label
\* pd.cut called with right=False: bin i is [bins[i], bins[i+1])
cut_right_open(v, bins, labels) ==
    LET hit == {i \in DOMAIN labels : bins[i] <= v /\ v < bins[i + 1]}
    IN  IF v = NaN \/ hit = {} THEN NA ELSE labels[CHOOSE i \in hit : TRUE]

cut(v, bins, labels) ==
    LET hit == {i \in DOMAIN labels : bins[i] < v /\ v <= bins[i + 1]}
    IN  IF v = NaN \/ hit = {} THEN NA ELSE labels[CHOOSE i \in hit : TRUE]

\* self.df[c] = ...: the column is added, or overwritten
with_column(d, c, value(_)) ==
    [columns |-> d.columns \cup {c},
     rows |-> [i \in DOMAIN d.rows |->
                  [x \in d.columns \cup {c} |->
                      IF x = c THEN value(d.rows[i]) ELSE d.rows[i][x]]]]

with_age_group(d) ==
    with_column(d, "Age_Group", LAMBDA r : cut(r["Age"], AgeBins, AgeLabels))

\* the rows without a tenure bucket dropped from the table itself
with_tenure_group_dropna(d) ==
    LET t == with_column(d, "Tenure_Group",
                         LAMBDA r : cut(r["Customer_Tenure_in_months"],
                                        TenureBins, TenureLabels))
    IN  [t EXCEPT !.rows = SelectSeq(t.rows,
                               LAMBDA r : r["Tenure_Group"] # NA)]

with_tenure_group(d) ==
    with_column(d, "Tenure_Group",
                LAMBDA r : cut(r["Customer_Tenure_in_months"],
                               TenureBins, TenureLabels))

segment_columns ==
    {"Customer_ID", "Churn_Binary", "Total_Revenue", "Satisfaction_Rate"}

age_analysis(d) ==
    LET keys == CategoryKeys(d.rows, "Age_Group", AgeLabels)
    IN  [i \in DOMAIN keys |->
            agg_row(keys[i], Group(d.rows, "Age_Group", keys[i]))]

tenure_analysis(d) ==
    LET keys == CategoryKeys(d.rows, "Tenure_Group", TenureLabels)
    IN  [i \in DOMAIN keys |->
            agg_row(keys[i], Group(d.rows, "Tenure_Group", keys[i]))]

plan_analysis(d) ==
    LET keys == TextKeys(d.rows, "Subscription_Plan", PlanKeys)
    IN  [i \in DOMAIN keys |->
            agg_row_price(keys[i],
                          Group(d.rows, "Subscription_Plan", keys[i]))]

\* The three segmentations share one try block and one store at its end.
\* The table gets its Age_Group column before the age aggregation can
\* raise, and its Tenure_Group column before the plan aggregation can.
customer_segmentation_analysis_step(s) ==
    LET Raised(t) == Returned(t, "customer_segmentation_analysis", "error",
                              "dict", EmptyDict)
    IN
    IF ~Aggregates(s.df, {"Age"}) THEN Raised(s)
    ELSE LET d1 == with_age_group(s.df) IN
    IF ~Has(d1, segment_columns) THEN Raised([s EXCEPT !.df = d1])
    ELSE IF ~Has(d1, {"Customer_Tenure_in_months"})
        THEN Raised([s EXCEPT !.df = d1])
    ELSE LET d2 == with_tenure_group(d1) IN
    IF ~Has(d2, {"Subscription_Plan", "Unit_Price"})
        THEN Raised([s EXCEPT !.df = d2])
    ELSE LET segments == [age_analysis |-> age_analysis(d2),
                          tenure_analysis |-> tenure_analysis(d2),
                          plan_analysis |-> plan_analysis(d2)]
         IN  Returned([s EXCEPT !.df = d2,
                                !.res = Put(s.res, "segmentation_analysis",
                                            segments)],
                      "customer_segmentation_analysis", "ok", "dict",
                      segments)

----------------------------------------------------------------------------
(* churn_reasons_analysis *)

\* the distinct elements of a sequence in the order of their first occurrence
RECURSIVE Distinct(_)
Distinct(s) ==
    IF s = <<>> THEN <<>>
    ELSE <<Head(s)>> \o Distinct(SelectSeq(Tail(s), LAMBDA x : x # Head(s)))

\* value_counts(): the reasons that occur with their counts, most frequent
\* first, and each count as a percentage of all churned customers
churn_reasons_df(d) ==
    LET churned == SelectSeq(d.rows, LAMBDA r : r["Churn_Binary"] = 1)
        reasons == Distinct(SelectSeq(Col(churned, "Reasons_for_Churn"),
                                      LAMBDA x : x # NA))
        counts == [i \in DOMAIN reasons |->
                    [Reason |-> reasons[i],
                     Count |-> Len(Group(churned, "Reasons_for_Churn",
                                         reasons[i])),
                     Percentage |->
                         Ratio(Len(Group(churned, "Reasons_for_Churn",
                                         reasons[i])), Len(churned), 100)]]
    IN  sort_values(counts, "Count")

\* the else branch storing the empty table it returns
churn_reasons_analysis_stores_empty(s) ==
    IF ~Has(s.df, {"Churn_Binary"})
        THEN Returned(s, "churn_reasons_analysis", "error", "DataFrame",
                      EmptyFrame)
    ELSE IF Aggregates(s.df, {"Reasons_for_Churn"})
        THEN Returned([s EXCEPT !.res = Put(s.res, "churn_reasons",
                                            churn_reasons_df(s.df))],
                      "churn_reasons_analysis", "ok", "DataFrame",
                      churn_reasons_df(s.df))
    ELSE IF "Reasons_for_Churn" \in s.df.columns
        THEN Returned(s, "churn_reasons_analysis", "error", "DataFrame",
                      EmptyFrame)
    ELSE Returned([s EXCEPT !.res = Put(s.res, "churn_reasons", EmptyFrame)],
                  "churn_reasons_analysis", "warning", "DataFrame",
                  EmptyFrame)

\* without Churn_Binary (or without a table) the first line raises; with
\* it and without Reasons_for_Churn the else branch warns
churn_reasons_analysis_step(s) ==
    IF ~Has(s.df, {"Churn_Binary"})
        THEN Returned(s, "churn_reasons_analysis", "error", "DataFrame",
                      EmptyFrame)
    ELSE IF Aggregates(s.df, {"Reasons_for_Churn"})
        THEN Returned([s EXCEPT !.res = Put(s.res, "churn_reasons",
                                            churn_reasons_df(s.df))],
                      "churn_reasons_analysis", "ok", "DataFrame",
                      churn_reasons_df(s.df))
    ELSE IF "Reasons_for_Churn" \in s.df.columns
        THEN Returned(s, "churn_reasons_analysis", "error", "DataFrame",
                      EmptyFrame)
    ELSE Returned(s, "churn_reasons_analysis", "warning", "DataFrame",
                  EmptyFrame)

----------------------------------------------------------------------------
(* predictive_analytics *)

RECURSIVE SortAsc(_, _)
SortAsc(vals, idx) ==
    IF idx = {} THEN <<>>
    ELSE LET first == CHOOSE i \in idx : \A j \in idx :
                 vals[i] < vals[j] \/ (vals[i] = vals[j] /\ i <= j)
         IN  <<vals[first]>> \o SortAsc(vals, idx \ {first})

\* Four times Series.quantile(0.75) (linear interpolation between the two
\* order statistics around position 0.75 * (n - 1)); NaN without values
quantile75_times4(rows, c) ==
    LET present == SelectSeq(Col(rows, c), LAMBDA v : v # NaN)
        v == SortAsc(present, DOMAIN present)
        lo == (3 * (Len(v) - 1)) \div 4
        frac == (3 * (Len(v) - 1)) % 4
    IN  IF Len(v) = 0 THEN NaN
        ELSE IF frac = 0 THEN 4 * v[lo + 1]
        ELSE 4 * v[lo + 1] + frac * (v[lo + 2] - v[lo + 1])

IsAtRisk(r) == r["Satisfaction_Rate"] # NaN /\ r["Satisfaction_Rate"] <= 2

IsNewCustomer_upto6(r) ==
    /\ r["Customer_Tenure_in_months"] # NaN
    /\ r["Customer_Tenure_in_months"] <= 6

IsNewCustomer(r) ==
    /\ r["Customer_Tenure_in_months"] # NaN
    /\ r["Customer_Tenure_in_months"] < 6

predictive_columns ==
    {"Satisfaction_Rate", "Total_Revenue", "Customer_Tenure_in_months"}

predictive_results(d) ==
    LET at_risk_customers == SelectSeq(d.rows, IsAtRisk)
        new_customers == SelectSeq(d.rows, IsNewCustomer)
        threshold4 == quantile75_times4(d.rows, "Total_Revenue")
        high_value_at_risk ==
            SelectSeq(d.rows, LAMBDA r :
                /\ threshold4 # NaN
                /\ r["Total_Revenue"] # NaN
                /\ 4 * r["Total_Revenue"] >= threshold4
                /\ IsAtRisk(r))
    IN  [at_risk_count |-> Len(at_risk_customers),
         at_risk_revenue |-> ColSum(at_risk_customers, "Total_Revenue"),
         new_customer_churn_rate |->
             IF Len(new_customers) > 0
                 THEN Ratio(ColSum(new_customers, "Churn_Binary"),
                            Len(new_customers), 100)
                 ELSE 0,
         high_value_at_risk_count |-> Len(high_value_at_risk),
         high_value_at_risk_revenue |->
             ColSum(high_value_at_risk, "Total_Revenue")]

\* Churn_Binary is read only when some customer is new
predictive_analytics_step(s) ==
    IF /\ Aggregates(s.df, predictive_columns)
       /\ \/ "Churn_Binary" \in s.df.columns
          \/ SelectSeq(s.df.rows, IsNewCustomer) = <<>>
        THEN Returned([s EXCEPT !.res = Put(s.res, "predictive_analytics",
                                            predictive_results(s.df))],
                      "predictive_analytics", "ok", "dict",
                      predictive_results(s.df))
        ELSE Returned(s, "predictive_analytics", "error", "dict", EmptyDict)

----------------------------------------------------------------------------
(* run_complete_analysis *)

\* a component is skipped once an earlier one has printed an error
UnlessFailed(step(_), s) ==
    IF \E i \in DOMAIN s.out : s.out[i].level = "error" THEN s ELSE step(s)

run_all_components_stop_on_error(s) ==
    UnlessFailed(predictive_analytics_step,
     UnlessFailed(churn_reasons_analysis_step,
      UnlessFailed(customer_segmentation_analysis_step,
       UnlessFailed(device_performance_analysis_step,
        UnlessFailed(geographic_analysis_step,
         UnlessFailed(satisfaction_churn_analysis_step,
          calculate_primary_kpis_step(s)))))))

\* the seven analyses in the order of the calls, each on the state the
\* one before it left; their return values are dropped
run_all_components(s) ==
    predictive_analytics_step(
     churn_reasons_analysis_step(
      customer_segmentation_analysis_step(
       device_performance_analysis_step(
        geographic_analysis_step(
         satisfaction_churn_analysis_step(
          calculate_primary_kpis_step(s)))))))

\* success reported only when no component printed an error
run_complete_analysis_step_all_ok(s) ==
    LET started == [s EXCEPT !.out = Append(@,
                        Message("run_complete_analysis", "start"))]
        done == run_all_components(started)
    IN  IF s.df = None
            THEN Returned(started, "run_complete_analysis", "error",
                          "bool", FALSE)
        ELSE IF \E i \in DOMAIN done.out : done.out[i].level = "error"
            THEN Returned(done, "run_complete_analysis", "error", "bool",
                          FALSE)
        ELSE Returned(done, "run_complete_analysis", "ok", "bool", TRUE)

run_complete_analysis_step(s) ==
    LET started == [s EXCEPT !.out = Append(@,
                        Message("run_complete_analysis", "start"))]
    IN  IF s.df = None
            THEN Returned(started, "run_complete_analysis", "error",
                          "bool", FALSE)
            ELSE Returned(run_all_components(started),
                          "run_complete_analysis", "ok", "bool", TRUE)

----------------------------------------------------------------------------
(* export_to_csv, export_to_excel *)

\* the results that are dicts; every other result is a DataFrame
DictResults ==
    {"primary_kpis", "satisfaction_analysis", "geographic_analysis",
     "segmentation_analysis", "predictive_analytics"}

\* the keys of a dict result whose values are DataFrames
FrameKeys(name) ==
    CASE name = "satisfaction_analysis" -> {"crosstab", "summary"}
      [] name = "geographic_analysis" -> {"state_summary", "high_risk_states"}
      [] name = "segmentation_analysis" ->
            {"age_analysis", "tenure_analysis", "plan_analysis"}
      [] OTHER -> {}

\* the tables exported for one result: <<name, key>> for each DataFrame of
\* a dict, <<name>> for a DataFrame; folder and timestamp are left out
FramesOf(name) ==
    IF name \in DictResults THEN {<<name, k>> : k \in FrameKeys(name)}
                            ELSE {<<name>>}

\* a text argument left out (Python None)
NoName == "<None>"

\* a name that is truthy and a key selects one result, any other all
csv_files(res, analysis_name) ==
    IF analysis_name \notin {NoName, ""} /\ analysis_name \in DOMAIN res
        THEN FramesOf(analysis_name)
        ELSE UNION {FramesOf(n) : n \in DOMAIN res}

\* to_csv raises when the file cannot be written (disk_ok false); the
\* except branch returns the empty list.  The list is kept as a set.
export_to_csv_step(s, analysis_name, disk_ok) ==
    IF csv_files(s.res, analysis_name) # {} /\ ~disk_ok
        THEN Returned(s, "export_to_csv", "error", "list", {})
        ELSE Returned(s, "export_to_csv", "ok", "list",
                      csv_files(s.res, analysis_name))

DefaultExcelName == "analysis_exports/MTN_Churn_Analysis_<timestamp>.xlsx"

\* a text as the sequence of its characters
Chars(text) ==
    CASE text = "Primary_KPIs" ->
           <<"P", "r", "i", "m", "a", "r", "y", "_", "K", "P", "I", "s">>
      [] text = "satisfaction_analysis" ->
           <<"s", "a", "t", "i", "s", "f", "a", "c", "t", "i", "o", "n",
             "_", "a", "n", "a", "l", "y", "s", "i", "s">>
      [] text = "geographic_analysis" ->
           <<"g", "e", "o", "g", "r", "a", "p", "h", "i", "c", "_", "a",
             "n", "a", "l", "y", "s", "i", "s">>
      [] text = "device_analysis" ->
           <<"d", "e", "v", "i", "c", "e", "_", "a", "n", "a", "l", "y",
             "s", "i", "s">>
      [] text = "segmentation_analysis" ->
           <<"s", "e", "g", "m", "e", "n", "t", "a", "t", "i", "o", "n",
             "_", "a", "n", "a", "l", "y", "s", "i", "s">>
      [] text = "churn_reasons" ->
           <<"c", "h", "u", "r", "n", "_", "r", "e", "a", "s", "o", "n",
             "s">>
      [] text = "crosstab" ->
           <<"c", "r", "o", "s", "s", "t", "a", "b">>
      [] text = "summary" ->
           <<"s", "u", "m", "m", "a", "r", "y">>
      [] text = "state_summary" ->
           <<"s", "t", "a", "t", "e", "_", "s", "u", "m", "m", "a", "r",
             "y">>
      [] text = "high_risk_states" ->
           <<"h", "i", "g", "h", "_", "r", "i", "s", "k", "_", "s", "t",
             "a", "t", "e", "s">>
      [] text = "age_analysis" ->
           <<"a", "g", "e", "_", "a", "n", "a", "l", "y", "s", "i", "s">>
      [] text = "tenure_analysis" ->
           <<"t", "e", "n", "u", "r", "e", "_", "a", "n", "a", "l", "y",
             "s", "i", "s">>
      [] text = "plan_analysis" ->
           <<"p", "l", "a", "n", "_", "a", "n", "a", "l", "y", "s", "i",
             "s">>

\* the DataFrames of a dict result in the order the analysis put them in
FrameOrder(name) ==
    CASE name = "satisfaction_analysis" -> <<"crosstab", "summary">>
      [] name = "geographic_analysis" ->
            <<"state_summary", "high_risk_states">>
      [] name = "segmentation_analysis" ->
            <<"age_analysis", "tenure_analysis", "plan_analysis">>
      [] OTHER -> <<>>

\* f"{name}_{key}"[:31] and name[:31]
sheet_name(name, key) ==
    LET full == IF key = NoName THEN Chars(name)
                ELSE Chars(name) \o <<"_">> \o Chars(key)
    IN  SubSeq(full, 1, IF Len(full) < 31 THEN Len(full) ELSE 31)

\* the sheets one result gets in the loop over analysis_results
sheets_of(name) ==
    IF name = "primary_kpis" THEN <<>>
    ELSE IF name \in DictResults
        THEN [i \in DOMAIN FrameOrder(name) |->
                 sheet_name(name, FrameOrder(name)[i])]
    ELSE <<sheet_name(name, NoName)>>

RECURSIVE sheets_in_order(_)
sheets_in_order(keys) ==
    IF keys = <<>> THEN <<>>
    ELSE sheets_of(Head(keys)) \o sheets_in_order(Tail(keys))

\* the sheets with the KPI sheet written where the loop meets primary_kpis
RECURSIVE sheets_in_loop(_)
sheets_in_loop(keys) ==
    IF keys = <<>> THEN <<>>
    ELSE (IF Head(keys) = "primary_kpis" THEN <<Chars("Primary_KPIs")>>
                                         ELSE sheets_of(Head(keys)))
         \o sheets_in_loop(Tail(keys))

excel_sheets_in_loop(res, keys) == sheets_in_loop(keys)

\* the sheets written, in order, when analysis_results.items() yields the
\* keys in the order keys: Primary_KPIs, then one per exported DataFrame
excel_sheets(res, keys) ==
    (IF "primary_kpis" \in DOMAIN res THEN <<Chars("Primary_KPIs")>>
                                      ELSE <<>>)
        \o sheets_in_order(keys)

\* the keys of res in the order run_complete_analysis inserts them
run_order(res) ==
    SelectSeq(<<"primary_kpis", "satisfaction_analysis",
                "geographic_analysis", "device_analysis",
                "segmentation_analysis", "churn_reasons",
                "predictive_analytics">>,
              LAMBDA k : k \in DOMAIN res)

\* closing a workbook without a sheet raises in openpyxl (whether there is
\* one does not depend on the order of the keys), as does a file that
\* cannot be written; the except branch returns None
export_to_excel_step(s, filename, disk_ok) ==
    IF excel_sheets(s.res, run_order(s.res)) = <<>> \/ ~disk_ok
        THEN Returned(s, "export_to_excel", "error", "NoneType", None)
        ELSE Returned(s, "export_to_excel", "ok", "str",
                      IF filename \in {NoName, ""} THEN DefaultExcelName
                                                 ELSE filename)

----------------------------------------------------------------------------
(* get_summary_report *)

\* the outcome of evaluating an expression: a value, or an exception
Evaluated(v) == [raised |-> FALSE, value |-> v]
IndexError == [raised |-> TRUE, value |-> "IndexError"]

\* frame.index[0] and frame.iloc[0]: the first row, IndexError on no row
iloc0(frame) == IF Len(frame) = 0 THEN IndexError ELSE Evaluated(frame[1])

\* one appended line: its text and the outcome of the value formatted in
Line(text, outcome) == [text |-> text, value |-> outcome]

key_metrics(kpis) ==
    <<Line("KEY METRICS", Evaluated("")),
      Line("Total Customers", Evaluated(kpis.total_customers)),
      Line("Churn Rate", Evaluated(kpis.churn_rate)),
      Line("Revenue at Risk", Evaluated(kpis.revenue_at_risk)),
      Line("Average Satisfaction", Evaluated(kpis.avg_satisfaction))>>

\* the state line without its len(high_risk) > 0 test
geographic_insights_unguarded(geo_data) ==
    <<Line("GEOGRAPHIC INSIGHTS", Evaluated("")),
      Line("Average State Churn Rate", Evaluated(geo_data.avg_churn_rate)),
      Line("Highest Risk State", iloc0(geo_data.high_risk_states))>>

geographic_insights(geo_data) ==
    <<Line("GEOGRAPHIC INSIGHTS", Evaluated("")),
      Line("Average State Churn Rate", Evaluated(geo_data.avg_churn_rate))>>
    \o (IF Len(geo_data.high_risk_states) > 0
            THEN <<Line("Highest Risk State",
                        iloc0(geo_data.high_risk_states))>>
            ELSE <<>>)

\* the device lines without their len(device_data) > 0 test
device_insights_unguarded(device_data) ==
    <<Line("DEVICE INSIGHTS", Evaluated("")),
      Line("Highest Risk Device", iloc0(device_data))>>

device_insights(device_data) ==
    IF Len(device_data) > 0
        THEN <<Line("DEVICE INSIGHTS", Evaluated("")),
               Line("Highest Risk Device", iloc0(device_data))>>
        ELSE <<>>

predictive_insights(pred_data) ==
    <<Line("PREDICTIVE INSIGHTS", Evaluated("")),
      Line("At-Risk Customers", Evaluated(pred_data.at_risk_count)),
      Line("At-Risk Revenue", Evaluated(pred_data.at_risk_revenue))>>

summary_lines(res) ==
    <<Line("MTN CUSTOMER CHURN ANALYSIS - EXECUTIVE SUMMARY", Evaluated(""))>>
    \o (IF "primary_kpis" \in DOMAIN res
            THEN key_metrics(res["primary_kpis"]) ELSE <<>>)
    \o (IF "geographic_analysis" \in DOMAIN res
            THEN geographic_insights(res["geographic_analysis"]) ELSE <<>>)
    \o (IF "device_analysis" \in DOMAIN res
            THEN device_insights(res["device_analysis"]) ELSE <<>>)
    \o (IF "predictive_analytics" \in DOMAIN res
            THEN predictive_insights(res["predictive_analytics"]) ELSE <<>>)

NoResultsText == "No analysis results available. Please run analysis first."

\* the method has no try block and prints nothing: an exception raised
\* while a line is built leaves it
get_summary_report_step(s) ==
    IF DOMAIN s.res = {}
        THEN [s EXCEPT !.ret = Value("get_summary_report", "str",
                                     <<Line(NoResultsText, Evaluated(""))>>)]
    ELSE IF \E i \in DOMAIN summary_lines(s.res) :
                summary_lines(s.res)[i].value.raised
        THEN [s EXCEPT !.ret = Value("get_summary_report", "raised",
                                     IndexError)]
    ELSE [s EXCEPT !.ret = Value("get_summary_report", "str",
                                 summary_lines(s.res))]

----------------------------------------------------------------------------
(* The tables the specifications load *)

\* a customer whose every cell is present and ordinary
DefaultRow ==
    [c \in InputColumns |->
        CASE c = "Customer_ID" -> "C001"
          [] c = "Age" -> 30
          [] c = "State" -> "Lagos"
          [] c = "MTN_Device" -> "Router"
          [] c = "Satisfaction_Rate" -> 4
          [] c = "Customer_Tenure_in_months" -> 12
          [] c = "Subscription_Plan" -> "Basic"
          [] c = "Unit_Price" -> 10
          [] c = "Total_Revenue" -> 10
          [] c = "Customer_Churn_Status" -> "No"
          [] c = "Reasons_for_Churn" -> NA]

\* the table with the given columns whose rows are rows[1..n], as read_csv
\* returns it
Table(cols, rows) ==
    [columns |-> cols,
     rows |-> [i \in DOMAIN rows |-> [c \in cols |-> rows[i][c]]]]

\* every table of 1 to MaxRows rows drawn from rowset
TablesOf(cols, rowset) ==
    UNION {{Table(cols, rows) : rows \in [1..n -> rowset]} : n \in 1..MaxRows}

\* Churn-status columns.  read_csv gives a column one type: text, or
\* booleans when every cell is True/False, or numbers when every cell is
\* one; a missing cell can occur in each.
TextStatus == {"Churned", "Active", "Yes", "No", "Suspended", "True", NA}
BoolStatus == {PyTrue, PyFalse, NA}
NumberStatus == {PyOne, PyZero, "<int 2>", NA}

WithStatus(values) ==
    {[DefaultRow EXCEPT !["Customer_Churn_Status"] = v] : v \in values}

StatusTables ==
    TablesOf(InputColumns, WithStatus(TextStatus))
        \cup TablesOf(InputColumns, WithStatus(BoolStatus))
        \cup TablesOf(InputColumns, WithStatus(NumberStatus))
        \cup TablesOf(InputColumns \ {"Customer_Churn_Status"}, {DefaultRow})

\* Revenue cells: missing, not a number, negative, zero, positive
RevenueCells == {NaN, Unparsable, -10, 0, 10}

KpiRows ==
    {[DefaultRow EXCEPT !["Customer_Churn_Status"] = v,
                        !["Total_Revenue"] = x] :
        v \in {"Yes", "No"}, x \in RevenueCells}

KpiTables == TablesOf(InputColumns, KpiRows)

\* Rows for the grouped analyses: with and without a customer id, tenure
\* 0 and 12 months, churned or not
GroupRows ==
    {[DefaultRow EXCEPT !["Customer_ID"] = id,
                        !["Customer_Tenure_in_months"] = t,
                        !["Customer_Churn_Status"] = v] :
        id \in {"C001", NA}, t \in {0, 12}, v \in {"Yes", "No"}}

GroupTables == TablesOf(InputColumns, GroupRows)

\* The files of the life-cycle specification: three contents under four
\* headers (every column; no Reasons_for_Churn; no Subscription_Plan; no
\* Customer_Churn_Status)
LifeHeaders ==
    {InputColumns,
     InputColumns \ {"Reasons_for_Churn"},
     InputColumns \ {"Subscription_Plan"},
     InputColumns \ {"Customer_Churn_Status"}}

LifeContents ==
    {<<[DefaultRow EXCEPT !["Customer_Churn_Status"] = "Churned",
                          !["Reasons_for_Churn"] = "Price",
                          !["Satisfaction_Rate"] = 2,
                          !["Customer_Tenure_in_months"] = 3,
                          !["Total_Revenue"] = 20],
       [DefaultRow EXCEPT !["Customer_Churn_Status"] = "Active",
                          !["State"] = "Abuja"]>>,
     <<[DefaultRow EXCEPT !["State"] = "Kano",
                          !["Customer_Tenure_in_months"] = 0]>>,
     <<[DefaultRow EXCEPT !["Customer_Churn_Status"] = "Yes",
                          !["Reasons_for_Churn"] = "Network",
                          !["Total_Revenue"] = 0]>>}

LifeTables ==
    {Table(cols, rows) : cols \in LifeHeaders, rows \in LifeContents}

\* The files of the segmentation specification: ages and tenures at, next
\* to and outside the bin edges, a missing age, and the four ages 20, 30,
\* 40, 60
AgeCells == {0, 20, 25, 26, 35, 45, 55, 56, 100, 101, Unparsable}
TenureCells == {0, 1, 6, 7, 36, 100, 101}

SegmentRows ==
    {[DefaultRow EXCEPT !["Age"] = a] : a \in AgeCells}
        \cup {[DefaultRow EXCEPT !["Customer_Tenure_in_months"] = t] :
                 t \in TenureCells}

ExampleAges ==
    Table(InputColumns,
          [i \in 1..4 |-> [DefaultRow EXCEPT !["Age"] = <<20, 30, 40, 60>>[i]]])

SegmentTables ==
    UNION {{Table(InputColumns, rows) : rows \in [1..n -> SegmentRows]} :
             n \in 1..MaxSegRows}
        \cup {ExampleAges}

\* Tables for the predictive metrics: tenures below and at 6 months and
\* missing ones, churned or not, with and without the churn-status column
PredictRows ==
    {[DefaultRow EXCEPT !["Customer_Tenure_in_months"] = t,
                        !["Customer_Churn_Status"] = v] :
        t \in {NaN, 5, 6}, v \in {"Yes", "No"}}

PredictTables ==
    TablesOf(InputColumns, PredictRows)
        \cup TablesOf(InputColumns \ {"Customer_Churn_Status"}, PredictRows)

\* Tables for the geographic analysis, state after state: a state has no
\* customer, one who left, or seven of whom two or four left
StateBlocks == {<<0, 0>>, <<1, 1>>, <<7, 2>>, <<7, 4>>}

StateBlock(state, customers, churned) ==
    [i \in 1..customers |->
        [DefaultRow EXCEPT !["State"] = state,
                           !["Customer_Churn_Status"] =
                               IF i <= churned THEN "Yes" ELSE "No"]]

RECURSIVE Concat(_)
Concat(blocks) ==
    IF blocks = <<>> THEN <<>> ELSE Head(blocks) \o Concat(Tail(blocks))

GeoTables ==
    {Table(InputColumns,
           Concat([i \in DOMAIN StateKeys |->
                      StateBlock(StateKeys[i], b[i][1], b[i][2])])) :
        b \in [DOMAIN StateKeys -> StateBlocks] \
                 {[i \in DOMAIN StateKeys |-> <<0, 0>>]}}

\* The files of the loading specification: cells of numeric columns that
\* are not numbers, with and without the churn-status column, and the
\* files of the life cycle
UnparsableRows ==
    {[DefaultRow EXCEPT !["Age"] = a, !["Total_Revenue"] = x] :
        a \in {30, Unparsable}, x \in {10, Unparsable}}

LoadTables ==
    TablesOf(InputColumns, UnparsableRows)
        \cup TablesOf(InputColumns \ {"Customer_Churn_Status"},
                      UnparsableRows)
        \cup LifeTables

\* The files of the specification of all operations: with and without
\* rows, under the headers above and under one that has no column any
\* analysis can use
OpsHeaders == LifeHeaders \cup {{"Customer_ID"}}

OpsContents ==
    {<<[DefaultRow EXCEPT !["Customer_Churn_Status"] = "Churned",
                          !["Reasons_for_Churn"] = "Price",
                          !["Satisfaction_Rate"] = 2],
       [DefaultRow EXCEPT !["Customer_Churn_Status"] = "Active",
                          !["State"] = "Abuja"]>>,
     <<[DefaultRow EXCEPT !["Customer_Churn_Status"] = "Yes"]>>,
     <<>>}

OpsTables == {Table(cols, rows) : cols \in OpsHeaders, rows \in OpsContents}

----------------------------------------------------------------------------
(* The engine *)

EmptyResults == [k \in {} |-> 0]

\* MTNChurnAnalysis(): no table, no results; the pandas build is whatever
\* is installed
\* nothing was called yet
NoCall == Value("__init__", "NoneType", None)

\* the session of a dashboard nobody has used yet
NewSession ==
    [data_loaded |-> FALSE, analysis_complete |-> FALSE,
     run_button |-> FALSE, export_button |-> FALSE, run_now_button |-> FALSE]

Init ==
    /\ df = None
    /\ analysis_results = EmptyResults
    /\ pandas_build \in [observed : BOOLEAN, ties_reversed : BOOLEAN,
                         empty_raises : {FALSE}, bottleneck : {FALSE}]
    /\ loads = 0
    /\ runs = 0
    /\ data_path = None
    /\ ret = NoCall
    /\ out = <<>>
    /\ session_state = NewSession

\* A source a caller can name: a file that read_csv parses to the table t,
\* or one it cannot open or parse (no such file, no columns to parse)
File(t) == [file |-> "csv", table |-> t]
Unreadable == [file |-> "unreadable"]

\* pd.read_csv(path): the table, or an exception
read_csv_usecols(path) ==
    IF path.file = "csv" /\ InputColumns \subseteq path.table.columns
        THEN [ok |-> TRUE, table |-> path.table]
        ELSE [ok |-> FALSE]

read_csv(path) ==
    IF path.file = "csv" THEN [ok |-> TRUE, table |-> path.table]
                         ELSE [ok |-> FALSE]

\* load_data(arg): arg is None (no argument) or a source.  The path is
\* kept before anything can raise; the table is replaced only when
\* read_csv succeeds; _prepare_data raises on no table.
analyzer_load_data_forgets(arg) ==
    LET path == IF arg # None THEN arg ELSE data_path
        loaded == path # None /\ read_csv(path).ok
    IN  /\ data_path' = path
        /\ df' = IF loaded THEN prepare_data(read_csv(path).table) ELSE None
        /\ ret' = Value("load_data", "bool", loaded)
        /\ out' = <<Message("load_data", IF loaded THEN "ok" ELSE "error")>>
        /\ loads' = loads + 1
        /\ runs' = IF loaded THEN 0 ELSE runs
        /\ UNCHANGED <<analysis_results, pandas_build>>

analyzer_load_data(arg) ==
    LET path == IF arg # None THEN arg ELSE data_path
        loaded == path # None /\ read_csv(path).ok
    IN  /\ data_path' = path
        /\ df' = IF loaded THEN prepare_data(read_csv(path).table) ELSE df
        /\ ret' = Value("load_data", "bool", loaded)
        /\ out' = <<Message("load_data", IF loaded THEN "ok" ELSE "error")>>
        /\ loads' = loads + 1
        /\ runs' = IF loaded THEN 0 ELSE runs
        /\ UNCHANGED <<analysis_results, pandas_build>>

\* load_data called on the engine directly
load_data(arg) == analyzer_load_data(arg) /\ UNCHANGED session_state

\* the engine as a call finds it: nothing printed or returned yet
Engine == [df |-> df, res |-> analysis_results, out |-> <<>>, ret |-> NoCall]

\* a call leaves the engine as t
Called(t) ==
    /\ df' = t.df
    /\ analysis_results' = t.res
    /\ ret' = t.ret
    /\ out' = t.out
    /\ UNCHANGED <<pandas_build, loads, data_path>>

\* a call made on the engine directly: no dashboard session is touched
Becomes(s) == (\E t \in {s} : Called(t)) /\ UNCHANGED session_state

calculate_primary_kpis ==
    Becomes(calculate_primary_kpis_step(Engine)) /\ UNCHANGED runs

satisfaction_churn_analysis ==
    Becomes(satisfaction_churn_analysis_step(Engine)) /\ UNCHANGED runs

geographic_analysis ==
    Becomes(geographic_analysis_step(Engine)) /\ UNCHANGED runs

device_performance_analysis ==
    Becomes(device_performance_analysis_step(Engine)) /\ UNCHANGED runs

customer_segmentation_analysis ==
    Becomes(customer_segmentation_analysis_step(Engine)) /\ UNCHANGED runs

churn_reasons_analysis ==
    Becomes(churn_reasons_analysis_step(Engine)) /\ UNCHANGED runs

predictive_analytics ==
    Becomes(predictive_analytics_step(Engine)) /\ UNCHANGED runs

\* the arguments callers pass to the exports
ExportNames ==
    {NoName, "", "primary_kpis", "device_analysis", "segmentation_analysis",
     "no_such_analysis"}
ExcelNames == {NoName, "report.xlsx"}

\* export_to_csv(analysis_name) on a disk that takes the files or not
export_to_csv_call(analysis_name) ==
    /\ \E disk_ok \in BOOLEAN :
            Becomes(export_to_csv_step(Engine, analysis_name, disk_ok))
    /\ UNCHANGED runs

export_to_csv == \E analysis_name \in ExportNames :
                    export_to_csv_call(analysis_name)

export_to_excel ==
    /\ \E filename \in ExcelNames, disk_ok \in BOOLEAN :
            Becomes(export_to_excel_step(Engine, filename, disk_ok))
    /\ UNCHANGED runs

get_summary_report ==
    Becomes(get_summary_report_step(Engine)) /\ UNCHANGED runs

\* returns False and calls nothing when no table is loaded
run_complete_analysis ==
    /\ Becomes(run_complete_analysis_step(Engine))
    /\ runs' = IF df # None /\ runs < MaxRuns THEN runs + 1 ELSE runs

----------------------------------------------------------------------------
(* The dashboard *)

\* One script run draws the sidebar: each button is shown enabled or not
\* as the session stands when its line is reached
all_buttons_enabled(ss) ==
    [ss EXCEPT !.run_button = TRUE, !.export_button = TRUE]

sidebar(ss) ==
    [ss EXCEPT !.run_button = ss.data_loaded,
               !.export_button = ss.analysis_complete]

\* further down the script draws the home tab, with its own run button
\* when data is loaded and no analysis is complete
home_tab(ss) ==
    [ss EXCEPT !.run_now_button = ss.data_loaded /\ ~ss.analysis_complete]

\* what the upload callback does with the session once analyzer.load_data
\* has returned
after_load_keeps_complete(ss, loaded) ==
    IF loaded THEN [ss EXCEPT !.data_loaded = TRUE] ELSE ss

after_load(ss, loaded) ==
    IF loaded THEN [ss EXCEPT !.data_loaded = TRUE,
                              !.analysis_complete = FALSE]
              ELSE ss

\* what run_analysis does with the session once run_complete_analysis has
\* returned
after_run(ss, completed) ==
    IF completed THEN [ss EXCEPT !.analysis_complete = TRUE] ELSE ss

\* the engine is not called
NoEngineCall ==
    UNCHANGED <<df, analysis_results, pandas_build, loads, runs, data_path,
                ret, out>>

\* the file uploader changes: the callback load_data() runs, then the
\* script.  The uploader holds no file (the user removed it) or a file;
\* writing temp_data.csv can fail, and so can analyzer.load_data
uploaded_file_on_change ==
    /\ loads < MaxLoads
    /\ \E uploaded_file \in {None, Unreadable}
                              \cup {File(t) : t \in LifeTables},
          temp_ok \in BOOLEAN :
            IF uploaded_file = None \/ ~temp_ok
                THEN /\ NoEngineCall
                     /\ session_state' = home_tab(sidebar(session_state))
                ELSE /\ analyzer_load_data(uploaded_file)
                     /\ session_state' =
                            home_tab(sidebar(after_load(session_state,
                                                        ret'.value)))

\* a click on Run Complete Analysis, which the page shows enabled: the
\* script runs, and run_analysis() in it before the export button is drawn
run_analysis ==
    /\ session_state.run_button
    /\ IF session_state.data_loaded
           THEN /\ \E t \in {run_complete_analysis_step(Engine)} : Called(t)
                /\ runs' = IF df # None /\ runs < MaxRuns THEN runs + 1
                                                          ELSE runs
                /\ session_state' =
                       home_tab(sidebar(after_run(session_state, ret'.value)))
           ELSE /\ NoEngineCall
                /\ session_state' = home_tab(sidebar(session_state))

\* a click on Run Analysis Now, which the page shows: the script draws the
\* sidebar, then the home tab, where run_analysis() is called if the button
\* is still drawn; the sidebar is not drawn again in this run
run_analysis_now ==
    /\ session_state.run_now_button
    /\ IF home_tab(session_state).run_now_button
           THEN /\ \E t \in {run_complete_analysis_step(Engine)} : Called(t)
                /\ runs' = IF df # None /\ runs < MaxRuns THEN runs + 1
                                                          ELSE runs
                /\ session_state' =
                       after_run(home_tab(sidebar(session_state)), ret'.value)
           ELSE /\ NoEngineCall
                /\ session_state' = home_tab(sidebar(session_state))

\* a click on Export All Results, which the page shows enabled:
\* export_to_excel() and then export_to_csv(), each on a disk that takes
\* the files or not
export_all_results ==
    /\ session_state.export_button
    /\ \E excel_ok \in BOOLEAN, csv_ok \in BOOLEAN :
          \E t \in {export_to_excel_step(Engine, NoName, excel_ok)} :
            Called(export_to_csv_step([t EXCEPT !.out = <<>>], NoName,
                                      csv_ok))
    /\ runs' = runs
    /\ session_state' = home_tab(sidebar(session_state))

InitDashboard ==
    /\ df = None
    /\ analysis_results = EmptyResults
    /\ pandas_build \in [observed : BOOLEAN, ties_reversed : {FALSE},
                         empty_raises : {FALSE}, bottleneck : {FALSE}]
    /\ loads = 0
    /\ runs = 0
    /\ data_path = None
    /\ ret = NoCall
    /\ out = <<>>
    /\ session_state = home_tab(sidebar(NewSession))

NextDashboard ==
    \/ uploaded_file_on_change
    \/ run_analysis
    \/ run_analysis_now
    \/ export_all_results

SpecDashboard == InitDashboard /\ [][NextDashboard]_vars

----------------------------------------------------------------------------
(* Specifications *)

\* The life cycle of one engine: loads, complete runs and single churn
\* reasons analyses in any order
Load == loads < MaxLoads /\ \E t \in LifeTables : load_data(File(t))

Next == Load \/ run_complete_analysis \/ churn_reasons_analysis

Spec == Init /\ [][Next]_vars

\* Every public operation in any order on an engine that loads at most
\* one table, after any number of failed loads; the pandas build also
\* decides what aggregating a table without rows does
InitOps ==
    /\ df = None
    /\ analysis_results = EmptyResults
    /\ pandas_build \in [observed : {FALSE}, ties_reversed : {FALSE},
                         empty_raises : BOOLEAN, bottleneck : {FALSE}]
    /\ loads = 0
    /\ runs = 0
    /\ data_path = None
    /\ ret = NoCall
    /\ out = <<>>
    /\ session_state = NewSession

LoadOps ==
    /\ loads < MaxLoads
    /\ df = None
    /\ \E arg \in {None, Unreadable} \cup {File(t) : t \in OpsTables} :
            load_data(arg)

NextOps ==
    \/ LoadOps
    \/ calculate_primary_kpis
    \/ satisfaction_churn_analysis
    \/ geographic_analysis
    \/ device_performance_analysis
    \/ customer_segmentation_analysis
    \/ churn_reasons_analysis
    \/ predictive_analytics
    \/ run_complete_analysis
    \/ export_to_csv
    \/ export_to_excel
    \/ get_summary_report

SpecOps == InitOps /\ [][NextOps]_vars

\* Loading: calls that name no path, an unreadable source or a file, until
\* a table is set, then calls without argument that read the file again
LoadAny ==
    /\ loads < MaxLoads
    /\ df = None
    /\ \E arg \in {None, Unreadable} \cup {File(t) : t \in LoadTables} :
            load_data(arg)

Reload == loads < MaxLoads /\ df # None /\ load_data(None)

NextLoad == LoadAny \/ Reload

SpecLoad == Init /\ [][NextLoad]_vars

\* One load on a new engine, then the segmentation analysis
LoadSegments ==
    df = None /\ \E t \in SegmentTables : load_data(File(t))

NextSegments == LoadSegments \/ customer_segmentation_analysis

SpecSegments == Init /\ [][NextSegments]_vars

\* Loads that succeed or fail (no path, a source that cannot be read) and
\* complete runs, in any order
LoadOrFail ==
    /\ loads < MaxLoads
    /\ \E arg \in {None, Unreadable} \cup {File(t) : t \in LifeTables} :
            load_data(arg)

NextFailedLoad == LoadOrFail \/ run_complete_analysis

SpecFailedLoad == Init /\ [][NextFailedLoad]_vars

\* One load on a new engine, then the seven analyses one by one in any
\* order
LoadAnalyses == df = None /\ \E t \in LifeTables : load_data(File(t))

NextAnalyses ==
    \/ LoadAnalyses
    \/ calculate_primary_kpis
    \/ satisfaction_churn_analysis
    \/ geographic_analysis
    \/ device_performance_analysis
    \/ customer_segmentation_analysis
    \/ churn_reasons_analysis
    \/ predictive_analytics

SpecAnalyses == Init /\ [][NextAnalyses]_vars

\* One load on a new engine, then complete runs, single device analyses
\* and exports in any order
LoadExport == df = None /\ \E t \in LifeTables : load_data(File(t))

NextExport ==
    \/ LoadExport
    \/ run_complete_analysis
    \/ device_performance_analysis
    \/ export_to_csv
    \/ export_to_excel

SpecExport == Init /\ [][NextExport]_vars

\* One load of a table of new and older customers on a new engine, then the
\* predictive metrics
LoadPredict == df = None /\ \E t \in PredictTables : load_data(File(t))

NextPredict == LoadPredict \/ predictive_analytics

SpecPredict == Init /\ [][NextPredict]_vars

\* One load of a table of up to five states on a new engine, then the
\* geographic analysis
LoadGeo == df = None /\ \E t \in GeoTables : load_data(File(t))

NextGeo == LoadGeo \/ geographic_analysis

\* the rates of these tables are not all whole halves, so that the order
\* in which the build adds them can matter
InitGeo ==
    /\ df = None
    /\ analysis_results = EmptyResults
    /\ pandas_build \in [observed : {FALSE}, ties_reversed : BOOLEAN,
                         empty_raises : {FALSE}, bottleneck : BOOLEAN]
    /\ loads = 0
    /\ runs = 0
    /\ data_path = None
    /\ ret = NoCall
    /\ out = <<>>
    /\ session_state = NewSession

SpecGeo == InitGeo /\ [][NextGeo]_vars

\* One load of a table with any mix of churn statuses and revenues on a new
\* engine, then the KPI summary
LoadKpi ==
    df = None /\ \E t \in StatusTables \cup KpiTables : load_data(File(t))

NextKpi == LoadKpi \/ calculate_primary_kpis

SpecKpi == Init /\ [][NextKpi]_vars

\* One load on a new engine, then complete runs: the grouped analyses
LoadGroups == df = None /\ \E t \in GroupTables : load_data(File(t))

NextGroups == LoadGroups \/ run_complete_analysis

SpecGroups == Init /\ [][NextGroups]_vars

----------------------------------------------------------------------------
(* Properties *)

Abs(x) == IF x < 0 THEN 0 - x ELSE x

Stored(k) == k \in DOMAIN analysis_results

AnalysisNames ==
    {"primary_kpis", "satisfaction_analysis", "geographic_analysis",
     "device_analysis", "segmentation_analysis", "churn_reasons",
     "predictive_analytics"}

Statuses == Col(df.rows, "Customer_Churn_Status")

\* the grouped result tables that are stored: satisfaction, state, device,
\* age, tenure, plan
GroupedResults ==
    (IF Stored("satisfaction_analysis")
        THEN <<analysis_results["satisfaction_analysis"].summary>> ELSE <<>>)
    \o (IF Stored("geographic_analysis")
        THEN <<analysis_results["geographic_analysis"].state_summary>>
        ELSE <<>>)
    \o (IF Stored("device_analysis")
        THEN <<analysis_results["device_analysis"]>> ELSE <<>>)
    \o (IF Stored("segmentation_analysis")
        THEN <<analysis_results["segmentation_analysis"].age_analysis,
               analysis_results["segmentation_analysis"].tenure_analysis,
               analysis_results["segmentation_analysis"].plan_analysis>>
        ELSE <<>>)

EveryGroup(P(_)) ==
    \A j \in DOMAIN GroupedResults :
        \A i \in DOMAIN GroupedResults[j] : P(GroupedResults[j][i])

\* what a complete run on table d stores on an engine that holds no result
FreshResults(d) ==
    run_complete_analysis_step([df |-> d, res |-> EmptyResults,
                                out |-> <<>>, ret |-> NoCall]).res

\* C1: after a complete run, analysis_results holds exactly what that run
\* computed from the loaded table: an analysis that failed or was skipped
\* on it has no entry, and no entry comes from an earlier table.
C1_OnlyCurrentTable ==
    runs >= 1 => analysis_results = FreshResults(df)

\* C2 as claimed: Churn_Binary is 1 exactly for the statuses 'Churned',
\* 'Yes' and true, and 0 for every other value and for a missing one.
C2_AsClaimed ==
    (df # None /\ "Customer_Churn_Status" \in df.columns) =>
        \A i \in DOMAIN df.rows :
            df.rows[i]["Churn_Binary"] =
                IF Statuses[i] \in {"Churned", "Yes", PyTrue} THEN 1 ELSE 0

\* C2, amended: Churn_Binary is in {0,1}; it is 1 exactly for the statuses
\* 'Churned', 'Yes', true and the number 1 (which equals True as a dict
\* key), and 0 for every other value and for a missing one.
C2_ChurnBinary ==
    (df # None /\ "Customer_Churn_Status" \in df.columns) =>
        \A i \in DOMAIN df.rows :
            /\ df.rows[i]["Churn_Binary"] \in {0, 1}
            /\ df.rows[i]["Churn_Binary"] = 1 <=>
                   Statuses[i] \in {"Churned", "Yes", PyTrue, PyOne}

\* a loaded table with a churned, an unmapped and a missing status
C2_Witness ==
    /\ df # None
    /\ "Customer_Churn_Status" \in df.columns
    /\ Statuses = <<"Churned", "Suspended", NA>>
    /\ Col(df.rows, "Churn_Binary") = <<1, 0, 0>>

\* C3: the KPI summary has churned + active = total, churned is the number
\* of rows whose status maps to churned, and every other row, whatever its
\* status, is counted as active.
C3_ChurnedPlusActive ==
    Stored("primary_kpis") =>
        LET k == analysis_results["primary_kpis"]
            churned == {i \in DOMAIN df.rows : ChurnMap(Statuses[i]) = 1}
        IN  /\ k.churned_customers + k.active_customers = k.total_customers
            /\ k.total_customers = Len(df.rows)
            /\ k.churned_customers = Cardinality(churned)
            /\ k.active_customers = Cardinality(DOMAIN df.rows \ churned)

\* KPIs of a table that mixes a valid, an invalid and a missing status
C3_Witness ==
    /\ Stored("primary_kpis")
    /\ Statuses = <<"Yes", "Suspended", NA>>
    /\ analysis_results["primary_kpis"].active_customers = 2

\* C4: on a non-empty table the KPI summary has total = number of rows,
\* churned = number of rows with Churn_Binary 1, churn_rate = churned /
\* total x 100 to the nearest hundredth (No, Yes, No gives 3, 1, 33.33) and
\* revenue_at_risk = the revenue of the churned rows only.
C4_PrimaryKpis ==
    (Stored("primary_kpis") /\ Len(df.rows) > 0) =>
        LET k == analysis_results["primary_kpis"]
            churned == {i \in DOMAIN df.rows : df.rows[i]["Churn_Binary"] = 1}
            risk == [i \in DOMAIN df.rows |->
                        IF i \in churned /\ df.rows[i]["Total_Revenue"] # NaN
                            THEN df.rows[i]["Total_Revenue"] ELSE 0]
        IN  /\ k.total_customers = Len(df.rows)
            /\ k.churned_customers = Cardinality(churned)
            /\ 2 * Abs(k.churn_rate * Len(df.rows)
                       - Cardinality(churned) * 100 * Scale) <= Len(df.rows)
            /\ k.revenue_at_risk = SeqSum(risk)
            /\ Statuses = <<"No", "Yes", "No">> =>
                   /\ k.total_customers = 3
                   /\ k.churned_customers = 1
                   /\ k.churn_rate = 3333

\* the KPIs of the three rows No, Yes, No, the churned one with revenue
C4_Witness ==
    /\ Stored("primary_kpis")
    /\ Statuses = <<"No", "Yes", "No">>
    /\ Col(df.rows, "Total_Revenue") = <<10, 10, 10>>
    /\ analysis_results["primary_kpis"].churn_rate = 3333
    /\ analysis_results["primary_kpis"].revenue_at_risk = 10

\* C5: every stored Churn_Rate of a grouped table is Churned_Customers /
\* Total_Customers x 100 without loss of precision (within 0.01 of it).
\* Stated for the tables in which every customer has an id, so that
\* Total_Customers is the size of the group.
C5_RateKeepsPrecision ==
    (df # None /\ \A i \in DOMAIN df.rows : df.rows[i]["Customer_ID"] # NA)
        => EveryGroup(LAMBDA g :
               (g.Total_Customers > 0) =>
                   Abs(g.Churn_Rate * g.Total_Customers
                       - g.Churned_Customers * 100 * Scale)
                     < g.Total_Customers)

\* the sum of Total_Customers over the rows of a grouped table
Customers(t) == SeqSum(Col(t, "Total_Customers"))

\* C6: when the key column of a grouped analysis has no missing value, the
\* Total_Customers of its result sum to the number of rows of the table.
C6_NoRowLost ==
    /\ Stored("satisfaction_analysis") =>
        ((\A i \in DOMAIN df.rows : df.rows[i]["Satisfaction_Rate"] # NaN)
            => Customers(analysis_results["satisfaction_analysis"].summary)
                   = Len(df.rows))
    /\ Stored("geographic_analysis") =>
        ((\A i \in DOMAIN df.rows : df.rows[i]["State"] # NA)
            => Customers(analysis_results["geographic_analysis"].state_summary)
                   = Len(df.rows))
    /\ Stored("device_analysis") =>
        ((\A i \in DOMAIN df.rows : df.rows[i]["MTN_Device"] # NA)
            => Customers(analysis_results["device_analysis"]) = Len(df.rows))
    /\ Stored("segmentation_analysis") =>
        LET seg == analysis_results["segmentation_analysis"]
        IN  /\ (\A i \in DOMAIN df.rows : df.rows[i]["Age"] # NaN)
                => Customers(seg.age_analysis) = Len(df.rows)
            /\ (\A i \in DOMAIN df.rows :
                    df.rows[i]["Customer_Tenure_in_months"] # NaN)
                => Customers(seg.tenure_analysis) = Len(df.rows)
            /\ (\A i \in DOMAIN df.rows :
                    df.rows[i]["Subscription_Plan"] # NA)
                => Customers(seg.plan_analysis) = Len(df.rows)

\* C7: every Churn_Rate of every grouped table is a defined number between
\* 0 and 100.
C7_RateInRange ==
    EveryGroup(LAMBDA g :
        IsDefined(g.Churn_Rate) /\ 0 <= g.Churn_Rate
            /\ g.Churn_Rate <= 100 * Scale)

\* C8: whenever the KPI summary is stored, revenue_at_risk <= total_revenue
\* and revenue_risk_percentage is a defined number between 0 and 100.
C8_RevenueRiskInRange ==
    Stored("primary_kpis") =>
        LET k == analysis_results["primary_kpis"]
        IN  /\ k.revenue_at_risk <= k.total_revenue
            /\ IsDefined(k.revenue_risk_percentage)
            /\ 0 <= k.revenue_risk_percentage
            /\ k.revenue_risk_percentage <= 100 * Scale

\* C9: a complete run that follows a complete run on the same loaded table
\* changes neither the results (same keys, same values) nor the table.
C9_SecondRunSame ==
    [][(run_complete_analysis /\ runs >= 1) =>
          (analysis_results' = analysis_results /\ df' = df)]_vars

\* two complete runs on a table whose segmentation succeeded
C9_Witness ==
    /\ runs = 2
    /\ Len(df.rows) > 0
    /\ AnalysisNames \subseteq DOMAIN analysis_results
    /\ analysis_results = FreshResults(df)

\* C10: on a table that lacks only Subscription_Plan a complete run skips
\* only the plan segmentation: every other analysis, the age and tenure
\* segmentations included, stores its result.
C10_OthersStillStored ==
    (runs >= 1 /\ df.columns \cap InputColumns
                    = InputColumns \ {"Subscription_Plan"}) =>
        AnalysisNames \subseteq DOMAIN analysis_results

\* the loaded table has every expected column except Reasons_for_Churn
LacksOnlyReasons ==
    /\ df # None
    /\ df.columns \cap InputColumns = InputColumns \ {"Reasons_for_Churn"}

\* C11: on a new engine whose first table lacks only Reasons_for_Churn, a
\* complete run stores the six other analyses and no churn_reasons entry,
\* and churn_reasons_analysis prints a warning and returns an empty table.
C11_ReasonsSkipped ==
    (loads = 1 /\ LacksOnlyReasons) =>
        /\ ret.op = "run_complete_analysis" =>
               DOMAIN analysis_results = AnalysisNames \ {"churn_reasons"}
        /\ ret.op = "churn_reasons_analysis" =>
               /\ ret.kind = "DataFrame"
               /\ ret.value = EmptyFrame
               /\ out = <<Message("churn_reasons_analysis", "warning")>>
               /\ ~Stored("churn_reasons")

\* a complete run on such a table, the churn-reasons step having warned
C11_Witness ==
    /\ loads = 1
    /\ LacksOnlyReasons
    /\ ret.op = "run_complete_analysis"
    /\ Message("churn_reasons_analysis", "warning") \in Range(out)
    /\ Cardinality(DOMAIN analysis_results) = 6

\* the single churn-reasons call on such a table
C11_WitnessCall ==
    /\ loads = 1
    /\ LacksOnlyReasons
    /\ ret.op = "churn_reasons_analysis"
    /\ ret.value = EmptyFrame

\* C12: run_complete_analysis returns True exactly when a table is loaded,
\* whatever the analyses did; without a table it returns False, has
\* printed nothing but its own two messages (no analysis was called) and
\* analysis_results is as it was, empty.
C12_TrueIffLoaded ==
    ret.op = "run_complete_analysis" =>
        /\ ret.kind = "bool"
        /\ ret.value = (df # None)
        /\ df = None =>
               /\ analysis_results = EmptyResults
               /\ out = <<Message("run_complete_analysis", "start"),
                          Message("run_complete_analysis", "error")>>

\* a run on a loaded table on which all seven analyses failed
C12_Witness ==
    /\ ret = Value("run_complete_analysis", "bool", TRUE)
    /\ df # None
    /\ Len(df.rows) > 0
    /\ Cardinality({i \in DOMAIN out : out[i].level = "error"}) = 7
    /\ analysis_results = EmptyResults

\* the operations whose messages a complete run prints, in order
RunOrder ==
    <<"run_complete_analysis", "calculate_primary_kpis",
      "satisfaction_churn_analysis", "geographic_analysis",
      "device_performance_analysis", "customer_segmentation_analysis",
      "churn_reasons_analysis", "predictive_analytics",
      "run_complete_analysis">>

ReturnKinds(op) ==
    CASE op \in {"load_data", "run_complete_analysis"} -> {"bool"}
      [] op \in {"calculate_primary_kpis", "customer_segmentation_analysis",
                 "predictive_analytics"} -> {"dict"}
      [] op \in {"satisfaction_churn_analysis", "geographic_analysis",
                 "device_performance_analysis", "churn_reasons_analysis"}
            -> {"DataFrame"}
      [] op = "export_to_csv" -> {"list"}
      [] op = "export_to_excel" -> {"str", "NoneType"}
      [] op = "get_summary_report" -> {"str"}
      [] OTHER -> {"NoneType"}

\* C14: whatever the engine holds (no table, a table without rows or
\* without columns, no or some results), no public operation lets an
\* exception out: each returns a value of its own type.
C14_NothingRaised ==
    ret.kind # "raised" /\ ret.kind \in ReturnKinds(ret.op)

\* the summary of results whose high-risk table has no row
C14_Witness ==
    /\ ret.op = "get_summary_report"
    /\ ret.kind = "str"
    /\ Stored("geographic_analysis")
    /\ analysis_results["geographic_analysis"].high_risk_states = <<>>

\* C15: load_data returns False only when no path is known or the source
\* cannot be read; for every file that parses it returns True and the
\* table is set with the columns and rows of the file, whatever columns
\* are missing, each cell as it was except that a cell of a numeric
\* column that is not a number is missing.
C15_LoadAcceptsParseable ==
    ret.op = "load_data" =>
        /\ ret.value = (data_path # None /\ data_path.file = "csv")
        /\ ret.value =>
               LET t == data_path.table
               IN  /\ df # None
                   /\ df.columns \cap InputColumns = t.columns
                   /\ Len(df.rows) = Len(t.rows)
                   /\ \A i \in DOMAIN t.rows : \A c \in t.columns :
                          df.rows[i][c] =
                              IF c \in numeric_columns
                                      /\ t.rows[i][c] = Unparsable
                                  THEN NaN ELSE t.rows[i][c]

\* a file without the churn-status column and with a cell that is not a
\* number, loaded
C15_Witness ==
    /\ ret = Value("load_data", "bool", TRUE)
    /\ "Customer_Churn_Status" \notin df.columns
    /\ \E i \in DOMAIN df.rows :
           /\ data_path.table.rows[i]["Age"] = Unparsable
           /\ df.rows[i]["Age"] = NaN

\* the label of the bin that holds v when the bins are closed on the side
\* named: [e, e') when right_open, (e, e'] otherwise
Bucket(v, bins, labels, right_open) ==
    {labels[i] : i \in {j \in DOMAIN labels :
        IF right_open THEN bins[j] <= v /\ v < bins[j + 1]
                      ELSE bins[j] < v /\ v <= bins[j + 1]}}

Segmented == df # None /\ "Age_Group" \in df.columns

Ages == Col(df.rows, "Age")

\* C16 as claimed: the age bins are right-open, so that an age on an edge
\* belongs to the bin the edge opens (25 is in 26-35).
C16_AsClaimed ==
    Segmented =>
        \A i \in DOMAIN df.rows :
            (Ages[i] # NaN /\ 0 < Ages[i] /\ Ages[i] < 100) =>
                {df.rows[i]["Age_Group"]}
                    = Bucket(Ages[i], AgeBins, AgeLabels, TRUE)

\* C16, amended: the age bins are right-closed, (0,25], (25,35], (35,45],
\* (45,55], (55,100]: an age on an edge belongs to the bin the edge closes
\* (25 is in 18-25, 55 in 46-55), and the ages 20, 30, 40, 60 are in
\* 18-25, 26-35, 36-45, 55+.
C16_AgeBuckets ==
    Segmented =>
        /\ \A i \in DOMAIN df.rows :
               (Ages[i] # NaN /\ 0 < Ages[i] /\ Ages[i] <= 100) =>
                   {df.rows[i]["Age_Group"]}
                       = Bucket(Ages[i], AgeBins, AgeLabels, FALSE)
        /\ \A i \in DOMAIN df.rows :
               /\ Ages[i] = 25 => df.rows[i]["Age_Group"] = "18-25"
               /\ Ages[i] = 35 => df.rows[i]["Age_Group"] = "26-35"
               /\ Ages[i] = 45 => df.rows[i]["Age_Group"] = "36-45"
               /\ Ages[i] = 55 => df.rows[i]["Age_Group"] = "46-55"
        /\ Ages = <<20, 30, 40, 60>> =>
               Col(df.rows, "Age_Group")
                   = <<"18-25", "26-35", "36-45", "55+">>

\* the segmentation of a table with the ages 25 and 55
C16_Witness ==
    /\ Segmented
    /\ Stored("segmentation_analysis")
    /\ Ages = <<25, 55>>
    /\ Col(df.rows, "Age_Group") = <<"18-25", "46-55">>

Tenures == Col(df.rows, "Customer_Tenure_in_months")

\* C17: a customer with a tenure of 0 months is in the bucket '0-6 months'
\* and is counted in the Total_Customers of that bucket.
C17_TenureZero ==
    (df # None /\ "Tenure_Group" \in df.columns
        /\ Stored("segmentation_analysis")) =>
        LET first == {i \in DOMAIN df.rows :
                        Tenures[i] # NaN /\ 0 <= Tenures[i] /\ Tenures[i] <= 6}
            tenure == analysis_results["segmentation_analysis"].tenure_analysis
        IN  /\ \A i \in DOMAIN df.rows :
                   Tenures[i] = 0 => df.rows[i]["Tenure_Group"] = "0-6 months"
            /\ first # {} =>
                   \E j \in DOMAIN tenure :
                       /\ tenure[j].key = "0-6 months"
                       /\ tenure[j].Total_Customers = Cardinality(first)

\* C18: no grouped table has a row for a group without customers: every
\* row counts at least one customer, and every bucket listed in
\* age_analysis or tenure_analysis is the bucket of some row of the table.
C18_NoEmptyGroup ==
    /\ EveryGroup(LAMBDA g : g.Total_Customers > 0)
    /\ Stored("segmentation_analysis") =>
           LET seg == analysis_results["segmentation_analysis"]
           IN  /\ \A j \in DOMAIN seg.age_analysis :
                      seg.age_analysis[j].key
                          \in Range(Col(df.rows, "Age_Group"))
               /\ \A j \in DOMAIN seg.tenure_analysis :
                      seg.tenure_analysis[j].key
                          \in Range(Col(df.rows, "Tenure_Group"))

\* the rows of a state summary whose rate is above the arithmetic mean of
\* the rates
high_risk_states_exact(geo) ==
    SelectSeq(geo, LAMBDA g :
        g.Churn_Rate * Len(geo) > SeqSum(Col(geo, "Churn_Rate")))

\* C19: state_summary is in non-increasing order of Churn_Rate, and
\* high_risk_states holds exactly its rows whose rate is strictly above the
\* unweighted mean of the per-state rates, in the same order: none when
\* every state has the same rate, and never every state.
C19_HighRiskStates ==
    Stored("geographic_analysis") =>
        LET summary == analysis_results["geographic_analysis"].state_summary
            high == analysis_results["geographic_analysis"].high_risk_states
        IN  /\ \A i, j \in DOMAIN summary :
                   i < j => summary[i].Churn_Rate >= summary[j].Churn_Rate
            /\ high = high_risk_states_exact(summary)
            /\ (\A i, j \in DOMAIN summary :
                    summary[i].Churn_Rate = summary[j].Churn_Rate)
                   => high = <<>>
            /\ summary # <<>> => Len(high) < Len(summary)

\* C20: the at-risk cohort of predictive_analytics holds active customers
\* only: after a run, at_risk_count and at_risk_revenue are the number and
\* the revenue of the rows with Satisfaction_Rate <= 2 and Churn_Binary 0.
C20_AtRiskOnlyActive ==
    (/\ ret.op = "run_complete_analysis"
     /\ df # None
     /\ Has(df, predictive_columns \cup {"Churn_Binary"})) =>
        LET active_at_risk ==
                SelectSeq(df.rows,
                          LAMBDA r : IsAtRisk(r) /\ r["Churn_Binary"] = 0)
            predictive == analysis_results["predictive_analytics"]
        IN  /\ predictive.at_risk_count = Len(active_at_risk)
            /\ predictive.at_risk_revenue =
                   ColSum(active_at_risk, "Total_Revenue")

\* the rows of the loaded table with a tenure below 6 months
NewRows ==
    {i \in DOMAIN df.rows :
        /\ df.rows[i]["Customer_Tenure_in_months"] # NaN
        /\ df.rows[i]["Customer_Tenure_in_months"] < 6}

\* C21: on a table with the satisfaction, revenue and tenure columns,
\* predictive_analytics succeeds with new_customer_churn_rate 0 when no row
\* has a tenure below 6 months (every tenure may be missing); otherwise the
\* rate is, to the nearest hundredth, 100 times the churned fraction of
\* the rows with a tenure strictly below 6.
C21_NewCustomerRate ==
    (/\ ret.op = "predictive_analytics"
     /\ df # None
     /\ Has(df, predictive_columns)) =>
        /\ NewRows = {} =>
               /\ out = <<Message("predictive_analytics", "ok")>>
               /\ Stored("predictive_analytics")
               /\ analysis_results["predictive_analytics"]
                      .new_customer_churn_rate = 0
        /\ (NewRows # {} /\ "Churn_Binary" \in df.columns) =>
               /\ Stored("predictive_analytics")
               /\ LET churned == {i \in NewRows :
                                    df.rows[i]["Churn_Binary"] = 1}
                      rate == analysis_results["predictive_analytics"]
                                  .new_customer_churn_rate
                  IN  2 * Abs(rate * Cardinality(NewRows)
                              - Cardinality(churned) * 100 * Scale)
                          <= Cardinality(NewRows)

\* the metrics of a table whose tenures are all missing
C21_Witness ==
    /\ ret.op = "predictive_analytics"
    /\ df # None
    /\ Len(df.rows) = 2
    /\ \A i \in DOMAIN df.rows :
           df.rows[i]["Customer_Tenure_in_months"] = NaN
    /\ Stored("predictive_analytics")
    /\ analysis_results["predictive_analytics"].new_customer_churn_rate = 0

\* the metrics of a table with a churned customer of 5 months and a
\* churned one of 6 months
C21_WitnessNew ==
    /\ ret.op = "predictive_analytics"
    /\ df # None
    /\ Col(df.rows, "Customer_Tenure_in_months") = <<5, 5, 6>>
    /\ "Churn_Binary" \in df.columns
    /\ Col(df.rows, "Churn_Binary") = <<0, 1, 1>>
    /\ analysis_results["predictive_analytics"].new_customer_churn_rate
           = 50 * Scale

\* the texts of the lines of the report returned last
ReportTexts == {ret.value[i].text : i \in DOMAIN ret.value}

\* the heading of the section of each summarised result
SectionOf ==
    [primary_kpis |-> "KEY METRICS",
     geographic_analysis |-> "GEOGRAPHIC INSIGHTS",
     device_analysis |-> "DEVICE INSIGHTS",
     predictive_analytics |-> "PREDICTIVE INSIGHTS"]

\* C22 as stated: get_summary_report never fails; the report has the
\* section of each of the four results that is stored and of no other, and
\* is the fixed message when nothing is stored.
C22_AsClaimed ==
    ret.op = "get_summary_report" =>
        /\ ret.kind = "str"
        /\ analysis_results = EmptyResults => ReportTexts = {NoResultsText}
        /\ analysis_results # EmptyResults =>
               \A n \in DOMAIN SectionOf :
                   SectionOf[n] \in ReportTexts <=> Stored(n)

\* C22: get_summary_report never fails; the report is the fixed message
\* when nothing is stored, and otherwise has the section of each stored
\* result among the four and of no other, the device section only when the
\* device table has a row.
C22_SummarySections ==
    ret.op = "get_summary_report" =>
        /\ ret.kind = "str"
        /\ analysis_results = EmptyResults => ReportTexts = {NoResultsText}
        /\ analysis_results # EmptyResults =>
               \A n \in DOMAIN SectionOf :
                   SectionOf[n] \in ReportTexts <=>
                       /\ Stored(n)
                       /\ n = "device_analysis" =>
                              Len(analysis_results[n]) > 0

\* a report of the KPI and device results alone
C22_Witness ==
    /\ ret.op = "get_summary_report"
    /\ ret.kind = "str"
    /\ DOMAIN analysis_results = {"primary_kpis", "device_analysis"}
    /\ Len(analysis_results["device_analysis"]) > 0
    /\ ReportTexts \cap Range(SectionOf) = {"KEY METRICS", "DEVICE INSIGHTS"}

\* C23: export_to_csv called without a name and not failing writes a file
\* for every result held in analysis_results, the KPI summary and the
\* predictive metrics included, and returns the names of exactly the
\* files of the stored results.
C23_ExportsEveryResult ==
    [][(export_to_csv_call(NoName) /\ out'[1].level = "ok") =>
          /\ \A n \in DOMAIN analysis_results :
                 \E f \in ret'.value : f[1] = n
          /\ \A f \in ret'.value : f[1] \in DOMAIN analysis_results]_vars

\* every order in which a dict can hold the keys of the set S
RECURSIVE Orders(_)
Orders(S) ==
    IF S = {} THEN {<<>>}
    ELSE UNION {{<<k>> \o o : o \in Orders(S \ {k})} : k \in S}

\* C24: an export_to_excel that succeeds writes, in whatever order the
\* results were inserted, the Primary_KPIs sheet first when primary_kpis is
\* stored, one sheet of its own for every stored DataFrame, and no sheet
\* name longer than 31 characters.
C24_ExcelSheets ==
    (ret.op = "export_to_excel" /\ ret.kind = "str") =>
        \A keys \in Orders(DOMAIN analysis_results) :
            LET sheets == excel_sheets(analysis_results, keys)
                frames == UNION {FramesOf(n) : n \in DOMAIN analysis_results
                                                     \ {"primary_kpis"}}
            IN  /\ Stored("primary_kpis") =>
                       /\ sheets[1] = Chars("Primary_KPIs")
                       /\ Len(sheets) = Cardinality(frames) + 1
                /\ ~Stored("primary_kpis") => Len(sheets) = Cardinality(frames)
                /\ \A i, j \in DOMAIN sheets : sheets[i] = sheets[j] => i = j
                /\ \A i \in DOMAIN sheets : Len(sheets[i]) <= 31

\* a workbook of all seven results, whose longest sheet names are cut
C24_Witness ==
    /\ ret.op = "export_to_excel"
    /\ ret.kind = "str"
    /\ DOMAIN analysis_results = AnalysisNames
    /\ \E keys \in Orders(DOMAIN analysis_results) :
           /\ keys[1] = "segmentation_analysis"
           /\ excel_sheets(analysis_results, keys)[2]
                  = SubSeq(Chars("segmentation_analysis") \o <<"_">>
                               \o Chars("age_analysis"), 1, 31)
           /\ Len(excel_sheets(analysis_results, keys)) = 10

\* C25: in a dashboard session, whatever the order of uploads, runs and
\* exports: analysis_complete implies data_loaded, data_loaded implies that
\* the analyzer holds a table, and the exports are called only while
\* analysis_complete is true.
C25_SessionFlags ==
    /\ session_state.analysis_complete => session_state.data_loaded
    /\ session_state.data_loaded => df # None
    /\ ret.op \in {"export_to_csv", "export_to_excel"} =>
           session_state.analysis_complete

\* an export made from the dashboard after a load and a run
C25_Witness ==
    /\ ret.op = "export_to_csv"
    /\ session_state.analysis_complete
    /\ session_state.data_loaded
    /\ df # None
    /\ runs = 1

\* the analysis tabs show results
ShowsResults ==
    session_state.data_loaded /\ session_state.analysis_complete

\* C26: in the dashboard a successful load of an uploaded file sets
\* data_loaded and clears analysis_complete, and a failed one leaves both
\* as they were; hence the tabs show results only when
\* run_complete_analysis has run since the last successful load.
C26_LoadResetsComplete ==
    /\ [](ShowsResults => runs >= 1)
    /\ [][uploaded_file_on_change =>
             IF loads' # loads /\ ret'.value
                 THEN /\ session_state'.data_loaded
                      /\ ~session_state'.analysis_complete
                      /\ runs' = 0
                 ELSE /\ session_state'.data_loaded
                             = session_state.data_loaded
                      /\ session_state'.analysis_complete
                             = session_state.analysis_complete]_vars

\* a second file loaded after the analysis of the first was complete
C26_Witness ==
    /\ ret.op = "load_data"
    /\ ret.value = TRUE
    /\ loads = 2
    /\ runs = 0
    /\ Stored("primary_kpis")
    /\ session_state.data_loaded
    /\ ~session_state.analysis_complete

\* C27: no analysis changes the loaded table: after any analysis calls the
\* table has the columns, rows and values load_data left, those of the
\* file read and prepared.
C27_BaseTableUnchanged ==
    df # None => df = prepare_data(read_csv(data_path).table)

\* C28: a load_data that fails, for want of a path or because the source
\* cannot be read, leaves the table and every entry of analysis_results as
\* they were; a later run_complete_analysis works on the table that is
\* still loaded (its KPI summary counts the rows of that table).
C28_FailedLoadKeepsTable ==
    /\ [][(ret'.op = "load_data" /\ loads' # loads /\ ~ret'.value) =>
             /\ df' = df
             /\ analysis_results' = analysis_results]_vars
    /\ []((/\ ret.op = "run_complete_analysis"
            /\ df # None
            /\ Has(df, {"Churn_Binary", "Total_Revenue",
                        "Satisfaction_Rate"})) =>
              /\ Stored("primary_kpis")
              /\ analysis_results["primary_kpis"].total_customers
                     = Len(df.rows))

\* a failed load after a load and a run: table and results are still there
C28_Witness ==
    /\ ret.op = "load_data"
    /\ ret.value = FALSE
    /\ data_path = Unreadable
    /\ df # None
    /\ Len(df.rows) = 2
    /\ Stored("primary_kpis")
    /\ analysis_results["primary_kpis"].total_customers = 2

\* the seven analysis operations
AnalysisOps ==
    {"calculate_primary_kpis", "satisfaction_churn_analysis",
     "geographic_analysis", "device_performance_analysis",
     "customer_segmentation_analysis", "churn_reasons_analysis",
     "predictive_analytics"}

\* C29: an analysis that fails (prints an error) or is skipped (prints a
\* warning) returns its empty value, {} or an empty table, and leaves
\* analysis_results as it was: no entry is written, changed or removed.
C29_FailureKeepsResults ==
    [][(ret'.op \in AnalysisOps /\ out'[1].level \in {"error", "warning"}) =>
          /\ analysis_results' = analysis_results
          /\ ret'.kind \in {"dict", "DataFrame"}
          /\ ret'.kind = "dict" => ret'.value = EmptyDict
          /\ ret'.kind = "DataFrame" => ret'.value = EmptyFrame]_vars

\* a segmentation that failed for want of Subscription_Plan, the other
\* six results being stored
C29_Witness ==
    /\ ret.op = "customer_segmentation_analysis"
    /\ ret.kind = "dict"
    /\ ret.value = EmptyDict
    /\ out = <<Message("customer_segmentation_analysis", "error")>>
    /\ DOMAIN analysis_results = AnalysisNames \ {"segmentation_analysis"}

\* C30: export_to_csv(analysis_name) that does not fail returns the files
\* of the named analysis only when the name is a key of analysis_results,
\* and no file at all when it is not.
C30_NamedExport ==
    [][\A analysis_name \in ExportNames \ {NoName, ""} :
          (export_to_csv_call(analysis_name) /\ out'[1].level = "ok") =>
              IF analysis_name \in DOMAIN analysis_results
                  THEN \A f \in ret'.value : f[1] = analysis_name
                  ELSE ret'.value = {}]_vars

====
